---- MODULE Spec2Model ----
(***************************************************************************)
(* The capture-and-submit controller of src/src/App.js.                    *)
(*                                                                         *)
(* The file holds two definitions of the component App: the first at       *)
(* lines 7-311 (camera acquired by an effect keyed on `capturing`, DOM     *)
(* looked up with getElementById) and the second at lines 322-627 (camera  *)
(* acquired inside startCamera, a `stream` state and refs).  Which of the  *)
(* two a build binds to the name App is not decided by the file, so the    *)
(* model draws it in Init (app = 1 or app = 2) and keeps it fixed.         *)
(*                                                                         *)
(* React is modelled as it runs the code: the state updates of one handler *)
(* (or of one continuation after an await) are committed together, the DOM *)
(* is reconciled with the new state, then effect cleanups and effects run. *)
(* A handler closes over the state of the render that created it.          *)
(***************************************************************************)
EXTENDS Naturals, Sequences, FiniteSets

\* ---- bounds of the model ------------------------------------------------
\* getUserMedia calls over a run (each call is also the id of its stream)
MaxCam == 3
\* distinct success payloads the backend can answer with
NPayloads == 2
\* capture jobs (pending encodings plus uploads) the model keeps at once
MaxJobs == 2
\* receipt files the model keeps
MaxDownloads == 1

\* ---- values ---------------------------------------------------------------
\* JavaScript null for `error` (a string state) and for object handles
NULL == "<null>"
None == 0

VARIABLES
    app,          \* which definition of App is mounted: 1 or 2
    mounted,      \* the component is mounted
    capturing,    \* useState(false)
    analyzing,    \* useState(false)
    result,       \* useState(null): None or the payload stored by setResult
    error,        \* useState(null): NULL or a message
    stream,       \* App 2 only, useState(null): None or a stream id
    cams,         \* getUserMedia calls: sequence of [st, video]; index = stream id
    srcObject,    \* video elements ever created: srcObject of each (None or stream id)
    videoRef,     \* the video element now in the DOM (None when not rendered)
    ready,        \* the element in the DOM has readyState HAVE_ENOUGH_DATA
    effectVideo,  \* App 1: the element captured by the active [capturing] effect
    encodings,    \* pending canvas.toBlob callbacks, each with its closure
    uploads,      \* pending POST /analyze requests, each with its closure
    downloads,    \* files produced by downloadReceipt
    lastOp        \* history: the handler or callback that ran last

vars == <<app, mounted, capturing, analyzing, result, error, stream, cams,
          srcObject, videoRef, ready, effectVideo, encodings, uploads,
          downloads, lastOp>>

\* ---- messages of the source --------------------------------------------
CameraErrorMsg == "Failed to access camera. Please ensure camera permissions are granted."
CaptureErrorMsg == "Failed to capture photo"
AnalyzeFailedMsg == "Failed to analyze image"
FallbackMsg == "Failed to analyze. Please try again."
CameraNotReadyMsg == "Camera not ready"
VideoNotReadyMsg == "Video not ready. Please wait a moment."
InvalidDimensionsMsg == "Invalid video dimensions"
\* err.message of the errors axios and the DOM raise
NetworkErrorMsg == "Network Error"
TimeoutMsg == "timeout of 30000ms exceeded"
HttpErrorMsg == "Request failed with status code 500"
DrawErrorMsg == "Failed to execute 'drawImage'"
ServerMsg == "server: no food detected"

\* a || b of JavaScript on strings: null and "" are falsy
JsOr(a, b) == IF a # NULL /\ a # "" THEN a ELSE b

\* ---- the environment's answers -----------------------------------------
\* what canvas.toBlob hands to its callback
Blobs == {"null", "zero", "data"}

\* what axios.post settles with.  kind "ok": a 2xx response, `success` and
\* `data` are response.data.success and the payload; kind "http": a non-2xx
\* response, serverError is response.data.error (NULL when absent);
\* kinds "network" and "timeout": no response at all.
Responses ==
    [kind : {"ok"}, success : {TRUE}, data : 1..NPayloads, serverError : {NULL}]
    \cup [kind : {"ok"}, success : {FALSE}, data : {None}, serverError : {NULL, ServerMsg}]
    \cup [kind : {"http"}, success : {FALSE}, data : {None}, serverError : {NULL, "", ServerMsg}]
    \cup [kind : {"network", "timeout"}, success : {FALSE}, data : {None}, serverError : {NULL}]

\* err.message of the error axios throws for a response
ErrMessage(resp) ==
    CASE resp.kind = "http" -> HttpErrorMsg
      [] resp.kind = "network" -> NetworkErrorMsg
      [] resp.kind = "timeout" -> TimeoutMsg
      [] OTHER -> NULL

\* result.receipt_html of a payload
ReceiptHtml(p) == <<"receipt_html", p>>

\* ---- helpers shared by both definitions ----------------------------------
\* lastOp records the step and its input: arg is the stream of a camera
\* answer, the blob of an encoding, the payload of an upload answer (None
\* when it is not a success), 1 or 0 for a capture pressed with or without
\* a buffered frame; cam is the stream of the preview the frame of a capture
\* was drawn from; msg is response.data.error of an upload answer
OpMsg(name, arg, cam, msg) == [op |-> name, arg |-> arg, cam |-> cam, msg |-> msg]
OpCam(name, arg, cam) == OpMsg(name, arg, cam, NULL)
Op(name, arg) == OpCam(name, arg, None)

\* the blob handed to the toBlob callback, as recorded in lastOp
BlobCode(blob) == CASE blob = "null" -> 0 [] blob = "zero" -> 1 [] OTHER -> 2

\* the payload of a response with success: true, None for any other answer
Payload(resp) == IF resp.kind = "ok" /\ resp.success THEN resp.data ELSE None

\* sequence s without its i-th element
RemoveAt(s, i) == SubSeq(s, 1, i - 1) \o SubSeq(s, i + 1, Len(s))

\* a faulty variant of StopTracks: the tracks are never stopped
StopTracks_none(cs, s) == cs

\* stream.getTracks().forEach(track => track.stop())
StopTracks(cs, s) ==
    IF s # None /\ cs[s].st = "live" THEN [cs EXCEPT ![s].st = "stopped"] ELSE cs

\* streams with a live track
LiveStreams == {s \in 1..Len(cams) : cams[s].st = "live"}
\* getUserMedia calls not yet settled
PendingCams == {r \in 1..Len(cams) : cams[r].st = "pending"}

\* the camera section of the view: {capturing && !result && ( <video> ... )}
CameraSection(cap, res) == cap /\ res = None
\* {!capturing && !result && ( Start Camera )}
StartButton == mounted /\ ~capturing /\ result = None
\* a faulty variant of CameraControls: the buttons are not disabled while
\* analyzing
CameraControls_notDisabled == mounted /\ CameraSection(capturing, result)

\* capture and cancel buttons: inside the camera section, disabled={analyzing}
CameraControls == mounted /\ CameraSection(capturing, result) /\ ~analyzing
\* {error && ( ... Try Again )}
ErrorBanner == mounted /\ error # NULL /\ error # ""
\* {result && ( ... Download Receipt, New Scan )}
ResultsSection == mounted /\ result # None

Init ==
    /\ app \in {1, 2}
    /\ mounted = TRUE
    /\ capturing = FALSE
    /\ analyzing = FALSE
    /\ result = None
    /\ error = NULL
    /\ stream = None
    /\ cams = <<>>
    /\ srcObject = <<>>
    /\ videoRef = None
    /\ ready = FALSE
    /\ effectVideo = None
    /\ encodings = <<>>
    /\ uploads = <<>>
    /\ downloads = <<>>
    /\ lastOp = Op("init", 0)


\* setState of an unmounted component changes nothing
Set(new, old) == IF mounted THEN new ELSE old

\* a capture job may be added to the ones the model keeps
JobRoom == Len(encodings) + Len(uploads) < MaxJobs

(***************************************************************************)
(* The first definition of App (lines 7-311).                              *)
(***************************************************************************)

\* The commit that follows a handler of App 1: the new state (cap, an, res,
\* err), the DOM reconciled with it, then the effect of lines 13-36 with
\* dependency [capturing]: its cleanup stops the tracks of the srcObject of
\* the element it captured, and its body looks the video element up and
\* calls getUserMedia.  cs, src, rdy are cams, srcObject, ready as the
\* handler left them.
App1_Commit(cap, an, res, err, cs, src, rdy) ==
    LET show == mounted /\ CameraSection(cap, res)
        mount == show /\ videoRef = None
        unmountVideo == mounted /\ ~show /\ videoRef # None
        src1 == IF mount THEN Append(src, None) ELSE src
        ref1 == IF mount THEN Len(src) + 1 ELSE IF unmountVideo THEN None ELSE videoRef
        changed == mounted /\ cap # capturing
        cs1 == IF changed /\ capturing /\ effectVideo # None
               THEN StopTracks(cs, src[effectVideo]) ELSE cs
        cs2 == IF changed /\ cap
               THEN Append(cs1, [st |-> "pending", video |-> ref1]) ELSE cs1
    IN  /\ capturing' = cap
        /\ analyzing' = an
        /\ result' = res
        /\ error' = err
        /\ cams' = cs2
        /\ srcObject' = src1
        /\ videoRef' = ref1
        /\ ready' = IF mount \/ unmountVideo THEN FALSE ELSE rdy
        /\ effectVideo' = IF changed THEN (IF cap THEN ref1 ELSE None) ELSE effectVideo
        /\ UNCHANGED <<app, mounted, stream>>

\* startCamera, lines 38-41, from the Start Camera button
App1_startCamera ==
    /\ app = 1
    /\ StartButton
    /\ Len(cams) < MaxCam
    /\ App1_Commit(TRUE, analyzing, result, NULL, cams, srcObject, ready)
    /\ lastOp' = Op("startCamera", 0)
    /\ UNCHANGED <<encodings, uploads, downloads>>

\* .then of getUserMedia, lines 19-22: video.srcObject = stream; video.play().
\* `video` is the element the effect looked up when it ran.
App1_getUserMediaResolved(r) ==
    /\ app = 1
    /\ r \in PendingCams
    /\ LET v == cams[r].video
           cs == [cams EXCEPT ![r].st = "live"]
       IN  IF v # None
           THEN App1_Commit(capturing, analyzing, result, error, cs,
                            [srcObject EXCEPT ![v] = r],
                            IF v = videoRef THEN FALSE ELSE ready)
           ELSE \* video is null: the TypeError of line 20 lands in .catch
                App1_Commit(Set(FALSE, capturing), analyzing, result,
                            Set(CameraErrorMsg, error), cs, srcObject, ready)
    /\ lastOp' = Op("granted", r)
    /\ UNCHANGED <<encodings, uploads, downloads>>

\* .catch of getUserMedia, lines 23-27
App1_getUserMediaRejected(r) ==
    /\ app = 1
    /\ r \in PendingCams
    /\ App1_Commit(Set(FALSE, capturing), analyzing, result,
                   Set(CameraErrorMsg, error),
                   [cams EXCEPT ![r].st = "denied"], srcObject, ready)
    /\ lastOp' = Op("denied", r)
    /\ UNCHANGED <<encodings, uploads, downloads>>

\* lines 44-47 of stopCamera: the element is looked up when stopCamera runs
App1_stopTracks(cs) ==
    IF videoRef # None /\ srcObject[videoRef] # None
    THEN StopTracks(cs, srcObject[videoRef]) ELSE cs

\* stopCamera, lines 43-49, from the Cancel button
App1_stopCamera ==
    /\ app = 1
    /\ CameraControls
    /\ App1_Commit(FALSE, analyzing, result, error, App1_stopTracks(cams),
                   srcObject, ready)
    /\ lastOp' = Op("stopCamera", 0)
    /\ UNCHANGED <<encodings, uploads, downloads>>

\* a faulty variant of App1_finallyAnalyzing: analyzing is left true
App1_finallyAnalyzing_kept == TRUE

\* lines 106 and 100, the catch and the finally block: setAnalyzing(false)
App1_finallyAnalyzing == FALSE

\* captureAndAnalyze up to canvas.toBlob, lines 51-69 and 104-107.  There is
\* no readiness guard: the frame is drawn whatever the video has buffered.
\* A video without srcObject has videoWidth 0, so the canvas is 0 x 0.
App1_captureAndAnalyze ==
    /\ app = 1
    /\ CameraControls
    /\ JobRoom
    /\ \E throws \in BOOLEAN :
         IF throws
         THEN /\ App1_Commit(capturing, App1_finallyAnalyzing, None,
                             JsOr(DrawErrorMsg, CaptureErrorMsg), cams, srcObject, ready)
              /\ lastOp' = OpCam("captureThrew", 0, srcObject[videoRef])
              /\ UNCHANGED encodings
         ELSE /\ App1_Commit(capturing, TRUE, None, NULL, cams, srcObject, ready)
              /\ lastOp' = OpCam("captureAndAnalyze", IF ready THEN 1 ELSE 0,
                                  srcObject[videoRef])
              /\ encodings' = Append(encodings,
                     [frame |-> srcObject[videoRef] # None, stream |-> None,
                      src |-> srcObject[videoRef]])
    /\ UNCHANGED <<uploads, downloads>>

\* line 70: !blob || blob.size === 0
App1_blobEmpty(blob) == blob = "null" \/ blob = "zero"

\* the toBlob callback, lines 69-88: fail locally or post the blob
App1_toBlobCallback(i, blob) ==
    /\ app = 1
    /\ i \in 1..Len(encodings)
    /\ encodings[i].frame \/ blob = "null"
    /\ encodings' = RemoveAt(encodings, i)
    /\ lastOp' = OpCam("toBlob", BlobCode(blob), encodings[i].src)
    /\ IF App1_blobEmpty(blob)
       THEN /\ App1_Commit(capturing, Set(FALSE, analyzing), result,
                           Set(CaptureErrorMsg, error), cams, srcObject, ready)
            /\ UNCHANGED uploads
       ELSE /\ App1_Commit(capturing, analyzing, result, error, cams, srcObject, ready)
            /\ uploads' = Append(uploads, [stream |-> None, src |-> encodings[i].src])
    /\ UNCHANGED downloads

\* a faulty variant of App1_catchMessage: the fallback message is left out
App1_catchMessage_noFallback(resp) == resp.serverError

\* line 97: err.response?.data?.error || 'Failed to analyze. Please try again.'
App1_catchMessage(resp) == JsOr(resp.serverError, FallbackMsg)

\* the continuation of axios.post, lines 90-101
App1_uploadDone(i, resp) ==
    /\ app = 1
    /\ i \in 1..Len(uploads)
    /\ uploads' = RemoveAt(uploads, i)
    /\ lastOp' = OpMsg("uploadDone", Payload(resp), uploads[i].src, resp.serverError)
    /\ IF resp.kind = "ok" /\ resp.success
       THEN App1_Commit(Set(FALSE, capturing), Set(App1_finallyAnalyzing, analyzing),
                           Set(resp.data, result), error,
                           App1_stopTracks(cams), srcObject, ready)
       ELSE App1_Commit(capturing, Set(App1_finallyAnalyzing, analyzing), result,
                           Set(IF resp.kind = "ok" THEN AnalyzeFailedMsg
                               ELSE App1_catchMessage(resp), error),
                           cams, srcObject, ready)
    /\ UNCHANGED <<encodings, downloads>>

\* reset, lines 124-127, from the Try Again button
App1_reset ==
    /\ app = 1
    /\ ErrorBanner
    /\ App1_Commit(capturing, analyzing, None, NULL, cams, srcObject, ready)
    /\ lastOp' = Op("reset", 0)
    /\ UNCHANGED <<encodings, uploads, downloads>>

\* the New Scan button, line 296: reset(); startCamera();
App1_newScan ==
    /\ app = 1
    /\ ResultsSection
    /\ capturing \/ Len(cams) < MaxCam
    /\ App1_Commit(TRUE, analyzing, None, NULL, cams, srcObject, ready)
    /\ lastOp' = Op("newScan", 0)
    /\ UNCHANGED <<encodings, uploads, downloads>>

\* a faulty variant of App1_receiptFile: the guard on result is missing
App1_receiptFile_unguarded(files, res) == Append(files, ReceiptHtml(res))

\* the body of downloadReceipt, lines 111-121: nothing without a result, else
\* one file made of result.receipt_html
App1_receiptFile(files, res) ==
    IF res = None THEN files ELSE Append(files, ReceiptHtml(res))

\* downloadReceipt, lines 110-122: the Download Receipt button calls it when a
\* result is shown; its own guard covers a call without a result
App1_downloadReceipt ==
    /\ app = 1
    /\ mounted
    /\ Len(downloads) < MaxDownloads
    /\ downloads' = App1_receiptFile(downloads, result)
    /\ lastOp' = Op("downloadReceipt", 0)
    /\ UNCHANGED <<app, mounted, capturing, analyzing, result, error, stream, cams,
                   srcObject, videoRef, ready, effectVideo, encodings, uploads>>


\* the cleanup of the effect at teardown, lines 30-34
App1_unmount ==
    /\ app = 1
    /\ mounted
    /\ mounted' = FALSE
    /\ cams' = IF capturing /\ effectVideo # None
               THEN StopTracks(cams, srcObject[effectVideo]) ELSE cams
    /\ videoRef' = None
    /\ ready' = FALSE
    /\ effectVideo' = None
    /\ lastOp' = Op("unmount", 0)
    /\ UNCHANGED <<app, capturing, analyzing, result, error, stream, srcObject,
                   encodings, uploads, downloads>>

(***************************************************************************)
(* The second definition of App (lines 322-627).                           *)
(***************************************************************************)

\* The commit that follows a handler of App 2: the new state, the DOM
\* reconciled with it (videoRef.current follows the rendered element), then
\* the effect of lines 332-338 with dependency [stream], whose cleanup stops
\* the tracks of the stream of the render that set it up.
App2_Commit(cap, an, res, err, strm, cs, src, rdy) ==
    LET show == mounted /\ CameraSection(cap, res)
        mount == show /\ videoRef = None
        unmountVideo == mounted /\ ~show /\ videoRef # None
        changed == mounted /\ strm # stream
    IN  /\ capturing' = cap
        /\ analyzing' = an
        /\ result' = res
        /\ error' = err
        /\ stream' = strm
        /\ cams' = IF changed THEN StopTracks(cs, stream) ELSE cs
        /\ srcObject' = IF mount THEN Append(src, None) ELSE src
        /\ videoRef' = IF mount THEN Len(src) + 1
                       ELSE IF unmountVideo THEN None ELSE videoRef
        /\ ready' = IF mount \/ unmountVideo THEN FALSE ELSE rdy
        /\ UNCHANGED <<app, mounted, effectVideo>>

\* startCamera up to its await, lines 340-345, from the Start Camera button
App2_startCamera ==
    /\ app = 2
    /\ StartButton
    /\ Len(cams) < MaxCam
    /\ App2_Commit(capturing, analyzing, result, NULL, stream,
                   Append(cams, [st |-> "pending", video |-> None]), srcObject, ready)
    /\ lastOp' = Op("startCamera", 0)
    /\ UNCHANGED <<encodings, uploads, downloads>>

\* lines 347-349: the stream is bound only if videoRef.current is set when
\* the grant is handled, that is if the camera section is already rendered
App2_bindVideo(src, r) ==
    IF videoRef # None THEN [src EXCEPT ![videoRef] = r] ELSE src

\* startCamera after the await resolved, lines 346-350
App2_getUserMediaResolved(r) ==
    /\ app = 2
    /\ r \in PendingCams
    /\ App2_Commit(Set(TRUE, capturing), analyzing, result, error, Set(r, stream),
                   [cams EXCEPT ![r].st = "live"], App2_bindVideo(srcObject, r),
                   IF videoRef # None THEN FALSE ELSE ready)
    /\ lastOp' = Op("granted", r)
    /\ UNCHANGED <<encodings, uploads, downloads>>

\* startCamera after the await rejected, lines 351-354
App2_getUserMediaRejected(r) ==
    /\ app = 2
    /\ r \in PendingCams
    /\ App2_Commit(capturing, analyzing, result, Set(CameraErrorMsg, error), stream,
                   [cams EXCEPT ![r].st = "denied"], srcObject, ready)
    /\ lastOp' = Op("denied", r)
    /\ UNCHANGED <<encodings, uploads, downloads>>

\* lines 358-361 of stopCamera; closed is the `stream` of the render whose
\* stopCamera is called
App2_stopTracks(cs, closed) == StopTracks(cs, closed)
App2_stopStream(closed) == IF closed # None THEN Set(None, stream) ELSE stream

\* stopCamera, lines 357-363, from the Cancel button
App2_stopCamera ==
    /\ app = 2
    /\ CameraControls
    /\ App2_Commit(FALSE, analyzing, result, error, App2_stopStream(stream),
                   App2_stopTracks(cams, stream), srcObject, ready)
    /\ lastOp' = Op("stopCamera", 0)
    /\ UNCHANGED <<encodings, uploads, downloads>>

\* a faulty variant of App2_finallyAnalyzing: analyzing is left true
App2_finallyAnalyzing_kept == TRUE

\* lines 427-429, the finally block: setAnalyzing(false)
App2_finallyAnalyzing == FALSE

\* lines 366 and 374: the guards before anything is drawn
App2_notReady ==
    IF videoRef = None THEN CameraNotReadyMsg
    ELSE IF ~ready THEN VideoNotReadyMsg
    ELSE NULL

\* captureAndAnalyze up to canvas.toBlob, lines 365-397 (and 424-429 when
\* line 389 throws)
App2_captureAndAnalyze ==
    /\ app = 2
    /\ CameraControls
    /\ JobRoom
    /\ IF App2_notReady # NULL
       THEN /\ App2_Commit(capturing, analyzing, result, App2_notReady, stream,
                           cams, srcObject, ready)
            /\ lastOp' = OpCam("captureAndAnalyze", 0,
                                IF videoRef = None THEN None ELSE srcObject[videoRef])
            /\ UNCHANGED encodings
       ELSE \E zeroSize \in BOOLEAN :
              IF zeroSize
              THEN /\ App2_Commit(capturing, App2_finallyAnalyzing, None,
                                  JsOr(InvalidDimensionsMsg, FallbackMsg), stream,
                                  cams, srcObject, ready)
                   /\ lastOp' = OpCam("captureThrew", 0, srcObject[videoRef])
                   /\ UNCHANGED encodings
              ELSE /\ App2_Commit(capturing, TRUE, None, NULL, stream,
                                  cams, srcObject, ready)
                   /\ lastOp' = OpCam("captureAndAnalyze", 1, srcObject[videoRef])
                   /\ encodings' = Append(encodings,
                          [frame |-> TRUE, stream |-> stream, src |-> srcObject[videoRef]])
    /\ UNCHANGED <<uploads, downloads>>

\* a faulty variant of App2_blobEmpty: only a null blob counts as empty
App2_blobEmpty_nullOnly(blob) == blob = "null"

\* line 398: blob && blob.size > 0 fails
App2_blobEmpty(blob) == blob = "null" \/ blob = "zero"

\* line 425: err.message || err.response?.data?.error || '...'
App2_catchMessage(resp) ==
    JsOr(ErrMessage(resp), JsOr(resp.serverError, FallbackMsg))

\* the toBlob callback and what follows the await on it, lines 396-411
\* (and 424-429 when the promise rejects)
App2_toBlobCallback(i, blob) ==
    /\ app = 2
    /\ i \in 1..Len(encodings)
    /\ encodings' = RemoveAt(encodings, i)
    /\ lastOp' = OpCam("toBlob", BlobCode(blob), encodings[i].src)
    /\ IF App2_blobEmpty(blob)
       THEN /\ App2_Commit(capturing, Set(App2_finallyAnalyzing, analyzing), result,
                           Set(JsOr(CaptureErrorMsg, FallbackMsg), error), stream,
                           cams, srcObject, ready)
            /\ UNCHANGED uploads
       ELSE /\ App2_Commit(capturing, analyzing, result, error, stream,
                           cams, srcObject, ready)
            /\ uploads' = Append(uploads,
                   [stream |-> encodings[i].stream, src |-> encodings[i].src])
    /\ UNCHANGED downloads

\* the continuation of axios.post, lines 418-429.  stopCamera is the one of
\* the render in which the capture button was pressed.
App2_uploadDone(i, resp) ==
    /\ app = 2
    /\ i \in 1..Len(uploads)
    /\ uploads' = RemoveAt(uploads, i)
    /\ lastOp' = OpMsg("uploadDone", Payload(resp), uploads[i].src, resp.serverError)
    /\ IF resp.kind = "ok" /\ resp.success
       THEN App2_Commit(Set(FALSE, capturing), Set(App2_finallyAnalyzing, analyzing),
                           Set(resp.data, result), error,
                           App2_stopStream(uploads[i].stream),
                           App2_stopTracks(cams, uploads[i].stream), srcObject, ready)
       ELSE App2_Commit(capturing, Set(App2_finallyAnalyzing, analyzing), result,
                           Set(IF resp.kind = "ok" THEN AnalyzeFailedMsg
                               ELSE App2_catchMessage(resp), error),
                           stream, cams, srcObject, ready)
    /\ UNCHANGED <<encodings, downloads>>

\* a faulty variant of App2_reset: setError(null) is left out
App2_reset_keepsError ==
    /\ app = 2
    /\ ErrorBanner
    /\ App2_Commit(capturing, analyzing, None, error, stream, cams, srcObject, ready)
    /\ lastOp' = Op("reset", 0)
    /\ UNCHANGED <<encodings, uploads, downloads>>

\* reset, lines 446-449, from the Try Again button
App2_reset ==
    /\ app = 2
    /\ ErrorBanner
    /\ App2_Commit(capturing, analyzing, None, NULL, stream, cams, srcObject, ready)
    /\ lastOp' = Op("reset", 0)
    /\ UNCHANGED <<encodings, uploads, downloads>>

\* the New Scan button, line 612: reset(); startCamera();
App2_newScan ==
    /\ app = 2
    /\ ResultsSection
    /\ Len(cams) < MaxCam
    /\ App2_Commit(capturing, analyzing, None, NULL, stream,
                   Append(cams, [st |-> "pending", video |-> None]), srcObject, ready)
    /\ lastOp' = Op("newScan", 0)
    /\ UNCHANGED <<encodings, uploads, downloads>>

\* a faulty variant of App2_receiptFile: the guard on result is missing
App2_receiptFile_unguarded(files, res) == Append(files, ReceiptHtml(res))

\* the body of downloadReceipt, lines 433-443: nothing without a result, else
\* one file made of result.receipt_html
App2_receiptFile(files, res) ==
    IF res = None THEN files ELSE Append(files, ReceiptHtml(res))

\* downloadReceipt, lines 432-444: the Download Receipt button calls it when a
\* result is shown; its own guard covers a call without a result
App2_downloadReceipt ==
    /\ app = 2
    /\ mounted
    /\ Len(downloads) < MaxDownloads
    /\ downloads' = App2_receiptFile(downloads, result)
    /\ lastOp' = Op("downloadReceipt", 0)
    /\ UNCHANGED <<app, mounted, capturing, analyzing, result, error, stream, cams,
                   srcObject, videoRef, ready, effectVideo, encodings, uploads>>

\* the cleanup of the effect at teardown, lines 333-337
App2_unmount ==
    /\ app = 2
    /\ mounted
    /\ mounted' = FALSE
    /\ cams' = StopTracks(cams, stream)
    /\ videoRef' = None
    /\ ready' = FALSE
    /\ lastOp' = Op("unmount", 0)
    /\ UNCHANGED <<app, capturing, analyzing, result, error, stream, srcObject,
                   effectVideo, encodings, uploads, downloads>>

(***************************************************************************)
(* The browser.                                                            *)
(***************************************************************************)

\* the rendered video element buffers frames of its live stream until its
\* readyState is HAVE_ENOUGH_DATA (autoPlay, line 496; video.play(), line 21)
VideoBuffered ==
    /\ videoRef # None
    /\ srcObject[videoRef] # None
    /\ cams[srcObject[videoRef]].st = "live"
    /\ ~ready
    /\ ready' = TRUE
    /\ lastOp' = Op("buffered", 0)
    /\ UNCHANGED <<app, mounted, capturing, analyzing, result, error, stream, cams,
                   srcObject, videoRef, effectVideo, encodings, uploads, downloads>>

Next ==
    \/ App1_startCamera
    \/ \E r \in 1..MaxCam : App1_getUserMediaResolved(r)
    \/ \E r \in 1..MaxCam : App1_getUserMediaRejected(r)
    \/ App1_stopCamera
    \/ App1_captureAndAnalyze
    \/ \E i \in 1..MaxJobs, blob \in Blobs : App1_toBlobCallback(i, blob)
    \/ \E i \in 1..MaxJobs, resp \in Responses : App1_uploadDone(i, resp)
    \/ App1_reset
    \/ App1_newScan
    \/ App1_downloadReceipt
    \/ App1_unmount
    \/ App2_startCamera
    \/ \E r \in 1..MaxCam : App2_getUserMediaResolved(r)
    \/ \E r \in 1..MaxCam : App2_getUserMediaRejected(r)
    \/ App2_stopCamera
    \/ App2_captureAndAnalyze
    \/ \E i \in 1..MaxJobs, blob \in Blobs : App2_toBlobCallback(i, blob)
    \/ \E i \in 1..MaxJobs, resp \in Responses : App2_uploadDone(i, resp)
    \/ App2_reset
    \/ App2_newScan
    \/ App2_downloadReceipt
    \/ App2_unmount
    \/ VideoBuffered

Spec == Init /\ [][Next]_vars


\* Every pending callback of a capture eventually fires: the browser calls
\* the toBlob callback, and axios settles the request (its timeout of
\* 30000 ms, line 415 and line 87, bounds the wait).
LiveSpec ==
    /\ Spec
    /\ WF_vars(\E i \in 1..MaxJobs, blob \in Blobs : App1_toBlobCallback(i, blob))
    /\ WF_vars(\E i \in 1..MaxJobs, resp \in Responses : App1_uploadDone(i, resp))
    /\ WF_vars(\E i \in 1..MaxJobs, blob \in Blobs : App2_toBlobCallback(i, blob))
    /\ WF_vars(\E i \in 1..MaxJobs, resp \in Responses : App2_uploadDone(i, resp))

(***************************************************************************)
(* Properties.                                                             *)
(***************************************************************************)

NonEmptyMessage(e) == e # NULL /\ e # ""
StoppedIn(cs, s) == s # None => cs[s].st = "stopped"

\* C1: in every reachable state, capturing is not true while result is
\* non-null.
C1_CapturingExcludesResult == ~(capturing /\ result # None)

\* C2: whenever analyzing is true in the mounted component, it eventually
\* becomes false again, whatever the encoding and the upload answer, given
\* that every pending callback eventually fires.
C2_AnalyzingResolves == (mounted /\ analyzing) ~> (~analyzing \/ ~mounted)
\* an upload failed and analyzing is back to false
C2_Witness ==
    /\ mounted
    /\ lastOp.op = "uploadDone"
    /\ lastOp.arg = None
    /\ ~analyzing

\* C3: the step that handles an upload answered with success: true leaves
\* result equal to the payload of the answer and capturing false, and the
\* stream the frame was drawn from, the stream of the live preview and (App 2)
\* the stream of the `stream` state all have their tracks stopped.
C3_SuccessStoresAndStops ==
    [][(mounted /\ lastOp'.op = "uploadDone" /\ lastOp'.arg # None) =>
          /\ result' = lastOp'.arg
          /\ ~capturing'
          /\ StoppedIn(cams', lastOp'.cam)
          /\ StoppedIn(cams', stream)
          /\ (videoRef # None => StoppedIn(cams', srcObject[videoRef]))]_vars
\* a success was handled while the preview showed a stream
C3_Witness ==
    /\ mounted
    /\ lastOp.op = "uploadDone"
    /\ lastOp.arg = NPayloads
    /\ result = NPayloads
    /\ lastOp.cam # None
    /\ cams[lastOp.cam].st = "stopped"
    /\ ~capturing

\* C4: after the handler of an upload that was answered with success: false,
\* a network error, an HTTP error or a timeout, error is a non-empty message
\* and result is null.
C4_FailureSetsError ==
    (mounted /\ lastOp.op = "uploadDone" /\ lastOp.arg = None) =>
        (NonEmptyMessage(error) /\ result = None)
\* a failure without a server message was handled
C4_Witness ==
    /\ mounted
    /\ lastOp.op = "uploadDone"
    /\ lastOp.arg = None
    /\ error = FallbackMsg
    /\ result = None

\* C5: a denied camera request leaves capturing false and a non-empty error,
\* and capturing is not true while the request is pending.
C5_DenialStaysIdle ==
    /\ (mounted /\ lastOp.op = "denied") => (~capturing /\ NonEmptyMessage(error))
    /\ (mounted /\ PendingCams # {}) => ~capturing

\* C6: a capture pressed while the video has not buffered a frame sets a
\* "not ready" error, leaves analyzing false and starts neither an encoding
\* nor a request.
C6_NotReadyFailsFast ==
    (lastOp.op = "captureAndAnalyze" /\ lastOp.arg = 0) =>
        /\ error \in {CameraNotReadyMsg, VideoNotReadyMsg}
        /\ ~analyzing
        /\ encodings = <<>>
        /\ uploads = <<>>

\* C7: the step that handles a null or zero-size blob sets the capture
\* failure message, returns analyzing to false, leaves result null and
\* issues no request.
C7_EmptyBlobFailsLocally ==
    [][(mounted /\ lastOp'.op = "toBlob" /\ lastOp'.arg \in {0, 1}) =>
          /\ error' = CaptureErrorMsg
          /\ ~analyzing'
          /\ result' = None
          /\ uploads' = uploads]_vars
\* a zero-size blob was handled
C7_Witness ==
    /\ mounted
    /\ lastOp.op = "toBlob"
    /\ lastOp.arg = 1
    /\ error = CaptureErrorMsg
    /\ ~analyzing

\* C8: after a camera grant is handled, capturing is true and the granted
\* stream is the srcObject of the rendered video element.
C8_GrantBindsPreview ==
    (mounted /\ lastOp.op = "granted") =>
        /\ capturing
        /\ videoRef # None
        /\ srcObject[videoRef] = lastOp.arg

\* C9: while capturing is false, no acquired stream has a live track.
C9_NoSessionOutsideCapturing == (mounted /\ ~capturing) => LiveStreams = {}

\* C10: at most one asynchronous call (camera acquisition, encoding, upload)
\* is outstanding.
C10_OneAsyncCallAtATime ==
    Cardinality(PendingCams) + Len(encodings) + Len(uploads) <= 1


\* C11 (as stated): after reset, result is null, error is null and
\* capturing is false.
C11_ResetReturnsToIdle ==
    (mounted /\ lastOp.op = "reset") => (result = None /\ error = NULL /\ ~capturing)
\* C11 (amended): the reset step leaves result null and error null and
\* leaves capturing as it was.
C11_ResetClearsResultAndError ==
    [][(mounted /\ lastOp'.op = "reset") =>
          (result' = None /\ error' = NULL /\ capturing' = capturing)]_vars
\* Try Again was pressed in capture mode
C11_Witness ==
    /\ mounted
    /\ lastOp.op = "reset"
    /\ capturing
    /\ result = None
    /\ error = NULL

\* C12: after a failed upload the error shown is the server-supplied message
\* when the answer carries one, and a generic message only when it does not.
C12_ServerMessagePreferred ==
    (mounted /\ lastOp.op = "uploadDone" /\ lastOp.arg = None) =>
        IF NonEmptyMessage(lastOp.msg)
        THEN error = lastOp.msg
        ELSE error \in {FallbackMsg, AnalyzeFailedMsg}

\* a capture has just failed: at the press (not ready, or the drawing threw),
\* at the encoding (empty blob) or at the upload (no success)
CaptureFailed ==
    \/ lastOp.op = "captureThrew"
    \/ lastOp.op = "captureAndAnalyze" /\ ~analyzing
    \/ lastOp.op = "toBlob" /\ lastOp.arg \in {0, 1}
    \/ lastOp.op = "uploadDone" /\ lastOp.arg = None

\* C13: after a failed capture, capturing has the value it had when the
\* capture was requested (true: the button is in the camera section) and
\* the tracks of the stream of the preview are not stopped.
C13_FailureKeepsCaptureMode ==
    (mounted /\ CaptureFailed) =>
        (capturing /\ (lastOp.cam # None => cams[lastOp.cam].st = "live"))

\* the stream stopCamera finds: video.srcObject (App 1), `stream` (App 2)
ActiveStream ==
    IF app = 1 THEN (IF videoRef # None THEN srcObject[videoRef] ELSE None)
    ELSE stream

\* C14: stopCamera stops the tracks of the active stream and sets capturing
\* false; without an active stream it changes none of capturing, analyzing,
\* result, error, the stream handle and the tracks.
C14_StopCameraFrame ==
    [][(mounted /\ lastOp'.op = "stopCamera") =>
          IF ActiveStream # None
          THEN cams'[ActiveStream].st = "stopped" /\ ~capturing'
          ELSE UNCHANGED <<capturing, analyzing, result, error, stream, cams>>]_vars

\* C15: after teardown no acquired stream has a live track.
C15_TeardownStopsEveryStream == ~mounted => LiveStreams = {}

\* C16: in the mounted component analyzing is true exactly when an encoding
\* or an upload of a capture is pending.
C16_AnalyzingIffSubmissionPending ==
    mounted => (analyzing <=> Len(encodings) + Len(uploads) >= 1)
\* an upload is pending
C16_Witness ==
    /\ mounted
    /\ analyzing
    /\ Len(uploads) = 1

\* C17: downloadReceipt without a result produces no file; with a result it
\* produces exactly one file, whose content is result.receipt_html; in both
\* cases the state of the controller is unchanged.
C17_DownloadReceipt ==
    [][(mounted /\ lastOp'.op = "downloadReceipt") =>
          /\ IF result = None
             THEN downloads' = downloads
             ELSE /\ Len(downloads') = Len(downloads) + 1
                  /\ SubSeq(downloads', 1, Len(downloads)) = downloads
                  /\ downloads'[Len(downloads')] = ReceiptHtml(result)
          /\ UNCHANGED <<capturing, analyzing, result, error, stream, cams,
                         srcObject, videoRef, encodings, uploads>>]_vars
\* a receipt of the stored result was downloaded
C17_Witness ==
    /\ mounted
    /\ lastOp.op = "downloadReceipt"
    /\ result = NPayloads
    /\ downloads = <<ReceiptHtml(NPayloads)>>

\* C18: at most one upload is pending, and the step that handles an upload
\* answer sets exactly one of result and error: result on success, error
\* otherwise, leaving the other as it was.
C18_OneUploadAtATime ==
    /\ [](Len(uploads) <= 1)
    /\ [][(mounted /\ lastOp'.op = "uploadDone") =>
            IF lastOp'.arg # None
            THEN result' = lastOp'.arg /\ error' = error
            ELSE NonEmptyMessage(error') /\ result' = result]_vars
\* an upload answer was handled while no other upload was pending
C18_Witness ==
    /\ mounted
    /\ lastOp.op = "uploadDone"
    /\ lastOp.arg # None
    /\ result = lastOp.arg
    /\ uploads = <<>>

\* C19: at most one acquired stream has live tracks.
C19_OneLiveStream == mounted => Cardinality(LiveStreams) <= 1

\* C20: error and result are never both non-null.
C20_ErrorExcludesResult == ~(result # None /\ error # NULL)

====
